---- MODULE Spec2Model ----
(***************************************************************************)
(* The blog application of blogicum/blog: the store of posts and comments  *)
(* (models.py), and one action per request handler of views.py.  A request *)
(* is handled atomically (one request at a time); its response is kept in  *)
(* `resp` until it is delivered, and the next request is taken after that. *)
(*                                                                         *)
(* A response is the outcome the handler produces: its kind (render = 200, *)
(* redirect = 302, notfound = Http404, notallowed = 405), the redirect     *)
(* target, the posts whose objects are handed to the template (`shown`)    *)
(* and, for a feed, the page of entries in order (`entries`).              *)
(***************************************************************************)
EXTENDS Integers, Sequences, FiniteSets, TLC

\* Bounds of the model.
MaxPosts == 2
MaxComments == 1
MaxTime == 2
MaxPage == 2

\* views.py: paginate_by = 10 (PostListView, CategoryPostsView, ProfileView).
paginate_by == 10

\* django.contrib.auth users: two flags each.  request.user is one of them
\* or the anonymous user.
Anonymous == "anonymous"
Users == {"ann", "sam", "rut"}
is_staff(u) == u = "sam"
is_superuser(u) == u = "rut"
Viewers == Users \cup {Anonymous}

\* Usernames a profile URL may carry: the users and one that does not exist.
Usernames == Users \cup {"ghost"}

\* Category rows, by slug; no view changes a category.
Categories == {"pub", "hid"}
category_is_published(c) == c = "pub"

PostIds == 1..MaxPosts
CommentIds == 1..MaxComments
Times == 1..MaxTime
Pages == 1..MaxPage
Methods == {"GET", "POST", "PUT"}
Texts == {"a", "b"}

\* A submitted PostForm: whether is_valid() (the fields left out here decide
\* it too), and the cleaned values of the fields the views read.
PostFormFields ==
    [is_valid : BOOLEAN, is_published : BOOLEAN, pub_date : Times,
     category : Categories]
NoPostData == [is_valid |-> FALSE, is_published |-> FALSE, pub_date |-> 1,
               category |-> "pub"]
\* The valid submissions and one invalid one; a request that is not a POST
\* carries no form.
PostFormInputs == {d \in PostFormFields : d.is_valid} \cup {NoPostData}
PostData(method) == IF method = "POST" THEN PostFormInputs ELSE {NoPostData}
PostForm_is_valid(data) == data.is_valid

\* A submitted CongratulationForm: its text; the field is required.
CongratulationFormInputs == Texts \cup {""}
CommentData(method) == IF method = "POST" THEN CongratulationFormInputs ELSE {""}
CongratulationForm_is_valid(data) == data # ""

\* A feed entry of a queryset without the comment_count annotation.
NoCount == -1

VARIABLES posts, comments, nextPost, nextComment, now, resp

vars == <<posts, comments, nextPost, nextComment, now, resp>>

\* models.py Post: the row's author and the fields PostForm edits that the
\* views read.
Post(author, data) ==
    [author |-> author, is_published |-> data.is_published,
     pub_date |-> data.pub_date, category |-> data.category]

\* models.py Congratulation.
Congratulation(post, author, text) ==
    [post |-> post, author |-> author, text |-> text]

----------------------------------------------------------------------------
\* Requests and responses.

Request(op, viewer, method, post_id, comment_id, name, page) ==
    [op |-> op, viewer |-> viewer, method |-> method, post_id |-> post_id,
     comment_id |-> comment_id, name |-> name, page |-> page]

Response(rq, kind, to, shown, entries) ==
    [req |-> rq, kind |-> kind, to |-> to, shown |-> shown, entries |-> entries]

Render(rq, shown) == Response(rq, "render", "", shown, <<>>)
RenderPage(rq, page) ==
    Response(rq, "render", "", {page[i].id : i \in DOMAIN page}, page)
Redirect(rq, to) == Response(rq, "redirect", to, {}, <<>>)
Http404(rq) == Response(rq, "notfound", "", {}, <<>>)
NotAllowed(rq) == Response(rq, "notallowed", "", {}, <<>>)

Idle == Response(Request("", Anonymous, "", 0, 0, "", 0), "none", "", {}, <<>>)

----------------------------------------------------------------------------
\* Querysets.

\* views.py get_published_posts: the filter over a set of post ids.
get_published_posts(ps) ==
    {p \in ps : /\ posts[p].pub_date <= now
                /\ posts[p].is_published
                /\ category_is_published(posts[p].category)}

\* Count('congratulations'): the comments that reference the post.
comment_count(p) == Cardinality({c \in DOMAIN comments : comments[c].post = p})

\* order_by('-pub_date'): every order of the rows the database may return;
\* rows of equal pub_date come in an order the query does not fix.
order_by_pub_date_desc(ps) ==
    {s \in [1..Cardinality(ps) -> ps] :
        /\ \A i, j \in DOMAIN s : i # j => s[i] # s[j]
        /\ \A i, j \in DOMAIN s : i < j => posts[s[i]].pub_date >= posts[s[j]].pub_date}

annotated(s) == [i \in DOMAIN s |-> [id |-> s[i], comment_count |-> comment_count(s[i])]]
unannotated(s) == [i \in DOMAIN s |-> [id |-> s[i], comment_count |-> NoCount]]

\* django.core.paginator.Paginator as the views use it.
num_pages(s) ==
    IF Len(s) = 0 THEN 1 ELSE (Len(s) + paginate_by - 1) \div paginate_by

page_slice(s, n) ==
    LET bottom == (n - 1) * paginate_by
        top == IF bottom + paginate_by > Len(s) THEN Len(s) ELSE bottom + paginate_by
    IN SubSeq(s, bottom + 1, top)

\* Paginator.get_page: a number past the last page gives the last page.
get_page(s, n) ==
    IF n < 1 \/ n > num_pages(s) THEN page_slice(s, num_pages(s)) ELSE page_slice(s, n)

\* Paginator.page, as ListView.paginate_queryset calls it: the number is valid.
valid_page(s, n) == n >= 1 /\ n <= num_pages(s)

----------------------------------------------------------------------------
Init ==
    /\ posts = <<>>
    /\ comments = <<>>
    /\ nextPost = 1
    /\ nextComment = 1
    /\ now = 1
    /\ resp = Idle

\* timezone.now() advances between requests.
Tick ==
    /\ resp = Idle
    /\ now < MaxTime
    /\ now' = now + 1
    /\ resp' = Idle
    /\ UNCHANGED <<posts, comments, nextPost, nextComment>>

----------------------------------------------------------------------------
\* Read-only views.

\* PostListView.get_queryset: the rows, before annotation and ordering.
PostListView_get_queryset == get_published_posts(DOMAIN posts)

\* PostListView (the index): the published posts, annotated, newest first;
\* ListView answers an invalid page number with Http404.
PostListView_get(v, n) ==
    /\ \E s \in order_by_pub_date_desc(PostListView_get_queryset) :
          LET rq == Request("index", v, "GET", 0, 0, "", n) IN
          resp' = IF valid_page(s, n)
                  THEN RenderPage(rq, page_slice(annotated(s), n))
                  ELSE Http404(rq)
    /\ UNCHANGED <<posts, comments, nextPost, nextComment, now>>

\* PostDetailView.get.
PostDetailView_get(v, post_id) ==
    /\ LET rq == Request("post_detail", v, "GET", post_id, 0, "", 0) IN
       resp' = IF post_id \notin DOMAIN posts THEN Http404(rq)
               ELSE IF ~posts[post_id].is_published /\ posts[post_id].author # v
               THEN Http404(rq)
               ELSE Render(rq, {post_id})
    /\ UNCHANGED <<posts, comments, nextPost, nextComment, now>>

\* CategoryPostsView.get_context_data: the rows of the category's page.
CategoryPostsView_posts(slug) ==
    {p \in DOMAIN posts : /\ posts[p].category = slug
                          /\ posts[p].is_published
                          /\ posts[p].pub_date <= now}

\* CategoryPostsView: get_object and get_context_data; Post.Meta.ordering
\* orders the rows, and nothing annotates them.
CategoryPostsView_get(v, slug, n) ==
    /\ LET rq == Request("category_posts", v, "GET", 0, 0, slug, n)
       IN IF ~category_is_published(slug)
          THEN resp' = Http404(rq)
          ELSE \E s \in order_by_pub_date_desc(CategoryPostsView_posts(slug)) :
                  resp' = RenderPage(rq, get_page(unannotated(s), n))
    /\ UNCHANGED <<posts, comments, nextPost, nextComment, now>>

\* ProfileView.get_context_data: user_object.posts.all().
ProfileView_posts(username) ==
    {p \in DOMAIN posts : posts[p].author = username}

\* ProfileView.get_context_data.
ProfileView_get(v, username, n) ==
    /\ LET rq == Request("profile", v, "GET", 0, 0, username, n)
       IN IF username \notin Users
          THEN resp' = Http404(rq)
          ELSE \E s \in order_by_pub_date_desc(ProfileView_posts(username)) :
                  resp' = RenderPage(rq, get_page(annotated(s), n))
    /\ UNCHANGED <<posts, comments, nextPost, nextComment, now>>

----------------------------------------------------------------------------
\* Posts: create, edit, delete.

\* PostForm.save(commit=False) on an instance: every field but the author.
PostForm_save(post, data) == Post(post.author, data)

\* CreatePostView (LoginRequiredMixin): get and post.
CreatePostView(v, method, data) ==
    LET rq == Request("create_post", v, method, 0, 0, "", 0) IN
    IF v # Anonymous /\ method = "POST" /\ PostForm_is_valid(data)
    THEN /\ nextPost <= MaxPosts
         /\ posts' = posts @@ (nextPost :> Post(v, data))
         /\ nextPost' = nextPost + 1
         /\ resp' = Redirect(rq, "profile")
         /\ UNCHANGED <<comments, nextComment, now>>
    ELSE /\ resp' = IF v = Anonymous THEN Redirect(rq, "login")
                    ELSE IF method \in {"GET", "POST"} THEN Render(rq, {})
                    ELSE NotAllowed(rq)
         /\ UNCHANGED <<posts, comments, nextPost, nextComment, now>>

\* The check of EditPostView.post, were staff let through as well.
EditPostView_not_author_nor_staff(v, post_id) ==
    posts[post_id].author # v /\ ~is_staff(v)

\* EditPostView.post: the viewer is turned away.
EditPostView_not_author(v, post_id) == posts[post_id].author # v

\* EditPostView: dispatch (login_required), get and post.
EditPostView(v, method, post_id, data) ==
    LET rq == Request("edit_post", v, method, post_id, 0, "", 0) IN
    IF /\ v # Anonymous /\ method = "POST" /\ post_id \in DOMAIN posts
       /\ ~EditPostView_not_author(v, post_id) /\ PostForm_is_valid(data)
    THEN /\ posts' = [posts EXCEPT ![post_id] = PostForm_save(@, data)]
         /\ resp' = Redirect(rq, "post_detail")
         /\ UNCHANGED <<comments, nextPost, nextComment, now>>
    ELSE /\ resp' = IF v = Anonymous THEN Redirect(rq, "login")
                    ELSE IF method \notin {"GET", "POST"} THEN NotAllowed(rq)
                    ELSE IF post_id \notin DOMAIN posts THEN Http404(rq)
                    ELSE IF method = "GET" THEN Render(rq, {post_id})
                    ELSE IF EditPostView_not_author(v, post_id)
                    THEN Redirect(rq, "post_detail")
                    ELSE Render(rq, {post_id})
         /\ UNCHANGED <<posts, comments, nextPost, nextComment, now>>

\* Post.delete(): the row and, by on_delete=CASCADE, its comments.
Post_delete(post_id) ==
    /\ posts' = [p \in DOMAIN posts \ {post_id} |-> posts[p]]
    /\ comments' = [c \in {d \in DOMAIN comments : comments[d].post # post_id}
                      |-> comments[c]]

\* DeletePostView.post: who may delete.
DeletePostView_allowed(v, post_id) ==
    posts[post_id].author = v \/ is_superuser(v)

\* DeletePostView: dispatch (login_required), get and post.
DeletePostView(v, method, post_id) ==
    LET rq == Request("delete_post", v, method, post_id, 0, "", 0) IN
    IF /\ v # Anonymous /\ method = "POST" /\ post_id \in DOMAIN posts
       /\ DeletePostView_allowed(v, post_id)
    THEN /\ Post_delete(post_id)
         /\ resp' = Redirect(rq, "index")
         /\ UNCHANGED <<nextPost, nextComment, now>>
    ELSE /\ resp' = IF v = Anonymous THEN Redirect(rq, "login")
                    ELSE IF method \notin {"GET", "POST"} THEN NotAllowed(rq)
                    ELSE IF post_id \notin DOMAIN posts THEN Http404(rq)
                    ELSE IF method = "GET" THEN Render(rq, {post_id})
                    ELSE Http404(rq)
         /\ UNCHANGED <<posts, comments, nextPost, nextComment, now>>

----------------------------------------------------------------------------
\* Comments: add, edit, delete (function views behind login_required; a
\* method other than POST takes the branch GET takes).

add_comment(v, method, post_id, data) ==
    LET rq == Request("add_comment", v, method, post_id, 0, "", 0) IN
    IF /\ v # Anonymous /\ method = "POST" /\ post_id \in DOMAIN posts
       /\ CongratulationForm_is_valid(data)
    THEN /\ nextComment <= MaxComments
         /\ comments' = comments @@ (nextComment :> Congratulation(post_id, v, data))
         /\ nextComment' = nextComment + 1
         /\ resp' = Render(rq, {post_id})
         /\ UNCHANGED <<posts, nextPost, now>>
    ELSE /\ resp' = IF v = Anonymous THEN Redirect(rq, "login")
                    ELSE IF post_id \notin DOMAIN posts THEN Http404(rq)
                    ELSE Render(rq, {post_id})
         /\ UNCHANGED <<posts, comments, nextPost, nextComment, now>>

\* CongratulationForm.save() on an instance: fields = ('text',).
CongratulationForm_save(comment, data) ==
    Congratulation(comment.post, comment.author, data)

\* edit_comment: the viewer is turned away.
edit_comment_not_author(v, comment_id) == comments[comment_id].author # v

edit_comment(v, method, post_id, comment_id, data) ==
    LET rq == Request("edit_comment", v, method, post_id, comment_id, "", 0) IN
    IF /\ v # Anonymous /\ comment_id \in DOMAIN comments
       /\ ~edit_comment_not_author(v, comment_id) /\ method = "POST"
       /\ CongratulationForm_is_valid(data)
    THEN /\ comments' = [comments EXCEPT ![comment_id] = CongratulationForm_save(@, data)]
         /\ resp' = Redirect(rq, "post_detail")
         /\ UNCHANGED <<posts, nextPost, nextComment, now>>
    ELSE /\ resp' = IF v = Anonymous THEN Redirect(rq, "login")
                    ELSE IF comment_id \notin DOMAIN comments THEN Http404(rq)
                    ELSE IF edit_comment_not_author(v, comment_id)
                    THEN Redirect(rq, "post_detail")
                    ELSE Render(rq, {})
         /\ UNCHANGED <<posts, comments, nextPost, nextComment, now>>

\* The check of delete_comment, were it the one DeletePostView.post makes.
delete_comment_allowed_superuser(v, comment_id) ==
    comments[comment_id].author = v \/ is_superuser(v)

\* delete_comment: who may delete.
delete_comment_allowed(v, comment_id) ==
    comments[comment_id].author = v \/ is_staff(v)

\* redirect('blog/index.html'): no URL name, so a relative path of that text.
delete_comment(v, method, post_id, comment_id) ==
    LET rq == Request("delete_comment", v, method, post_id, comment_id, "", 0) IN
    IF /\ v # Anonymous /\ comment_id \in DOMAIN comments
       /\ delete_comment_allowed(v, comment_id) /\ method = "POST"
    THEN /\ comments' = [c \in DOMAIN comments \ {comment_id} |-> comments[c]]
         /\ resp' = Redirect(rq, "post_detail")
         /\ UNCHANGED <<posts, nextPost, nextComment, now>>
    ELSE /\ resp' = IF v = Anonymous THEN Redirect(rq, "login")
                    ELSE IF comment_id \notin DOMAIN comments THEN Http404(rq)
                    ELSE IF delete_comment_allowed(v, comment_id) THEN Render(rq, {})
                    ELSE Redirect(rq, "blog/index.html")
         /\ UNCHANGED <<posts, comments, nextPost, nextComment, now>>

----------------------------------------------------------------------------
\* One request, handled from start to end.
Handle ==
    \/ \E v \in Viewers, n \in Pages : PostListView_get(v, n)
    \/ \E v \in Viewers, p \in PostIds : PostDetailView_get(v, p)
    \/ \E v \in Viewers, c \in Categories, n \in Pages : CategoryPostsView_get(v, c, n)
    \/ \E v \in Viewers, u \in Usernames, n \in Pages : ProfileView_get(v, u, n)
    \/ \E v \in Viewers, m \in Methods : \E d \in PostData(m) : CreatePostView(v, m, d)
    \/ \E v \in Viewers, m \in Methods, p \in PostIds : \E d \in PostData(m) :
          EditPostView(v, m, p, d)
    \/ \E v \in Viewers, m \in Methods, p \in PostIds : DeletePostView(v, m, p)
    \/ \E v \in Viewers, m \in Methods, p \in PostIds : \E d \in CommentData(m) :
          add_comment(v, m, p, d)
    \/ \E v \in Viewers, m \in Methods, p \in PostIds, c \in CommentIds :
          \E d \in CommentData(m) : edit_comment(v, m, p, c, d)
    \/ \E v \in Viewers, m \in Methods, p \in PostIds, c \in CommentIds :
          delete_comment(v, m, p, c)

\* The response goes out; the next request can be taken.
Deliver ==
    /\ resp # Idle
    /\ resp' = Idle
    /\ UNCHANGED <<posts, comments, nextPost, nextComment, now>>

Next ==
    \/ Tick
    \/ resp = Idle /\ Handle
    \/ Deliver

Spec == Init /\ [][Next]_vars

----------------------------------------------------------------------------
\* The vocabulary of the claims.

\* The public-visibility condition of a post.
PubliclyVisible(p) ==
    /\ posts[p].is_published
    /\ category_is_published(posts[p].category)
    /\ posts[p].pub_date <= now

\* The visibility policy: the author, or anybody when publicly visible.
MayView(v, p) == posts[p].author = v \/ PubliclyVisible(p)

FeedOps == {"index", "category_posts", "profile"}

\* The rows of the feed a request names, as the view selects them.
FeedRows(rq) ==
    CASE rq.op = "index" -> PostListView_get_queryset
      [] rq.op = "category_posts" -> CategoryPostsView_posts(rq.name)
      [] rq.op = "profile" -> ProfileView_posts(rq.name)
      [] OTHER -> {}

\* The feed's context exists: a published category, an existing user.
FeedExists(rq) ==
    CASE rq.op = "category_posts" -> category_is_published(rq.name)
      [] rq.op = "profile" -> rq.name \in Users
      [] OTHER -> TRUE

LastPage(count) ==
    IF count = 0 THEN 1 ELSE (count + paginate_by - 1) \div paginate_by

\* The step handles a request of one of these operations.
Handles(ops) == resp = Idle /\ resp'.req.op \in ops

----------------------------------------------------------------------------
\* C1: the detail view returns an existing post's content iff the viewer
\* is its author or the post is publicly visible, and answers NotFound in
\* every other case.
C1_DetailIffVisible ==
    (resp.req.op = "post_detail" /\ resp.req.post_id \in DOMAIN posts) =>
        IF MayView(resp.req.viewer, resp.req.post_id)
        THEN resp.kind = "render" /\ resp.req.post_id \in resp.shown
        ELSE resp.kind = "notfound"

\* C2: no feed page (index, category, profile) shows a viewer a post that
\* is neither the viewer's own nor publicly visible, and the feed of an
\* unpublished category shows no posts.
C2_FeedsShowOnlyVisible ==
    resp.req.op \in FeedOps =>
        /\ \A p \in resp.shown : MayView(resp.req.viewer, p)
        /\ (resp.req.op = "category_posts" /\ ~category_is_published(resp.req.name))
              => resp.shown = {}

\* C3: the profile feed shows its owner every post of the owner, and the
\* index shows a viewer every post the viewer wrote, publicly visible or
\* not (every feed of the model fits on its first page).
C3_FeedsIncludeOwnPosts ==
    LET v == resp.req.viewer
        own == {p \in DOMAIN posts : posts[p].author = v}
    IN (v \in Users /\ Cardinality(DOMAIN posts) <= paginate_by) =>
          /\ (resp.req.op = "profile" /\ resp.req.name = v)
                => resp.kind = "render" /\ own \subseteq resp.shown
          /\ (resp.req.op = "index" /\ resp.req.page = 1)
                => resp.kind = "render" /\ own \subseteq resp.shown

\* The profile half of C3 alone.
ProfileShowsOwnerAll ==
    LET v == resp.req.viewer
        own == {p \in DOMAIN posts : posts[p].author = v}
    IN (v \in Users /\ Cardinality(DOMAIN posts) <= paginate_by
        /\ resp.req.op = "profile" /\ resp.req.name = v)
          => resp.kind = "render" /\ own \subseteq resp.shown

\* C4: a delete-comment request of a logged-in viewer, whatever its method,
\* removes or changes no comment of which the viewer is neither the author
\* nor staff; a POST by the comment's author or by staff removes that
\* comment and nothing else.
C4_DeleteCommentPolicy ==
    [][Handles({"delete_comment"}) =>
        LET v == resp'.req.viewer
            c == resp'.req.comment_id
        IN /\ \A k \in DOMAIN comments :
                 (v \in Users /\ comments[k].author # v /\ ~is_staff(v))
                    => k \in DOMAIN comments' /\ comments'[k] = comments[k]
           /\ (/\ c \in DOMAIN comments /\ resp'.req.method = "POST" /\ v \in Users
               /\ (comments[c].author = v \/ is_staff(v)))
                 => /\ DOMAIN comments' = DOMAIN comments \ {c}
                    /\ \A k \in DOMAIN comments' : comments'[k] = comments[k]
                    /\ posts' = posts]_vars

\* C4, reached: a POST to delete a comment by a logged-in viewer who is
\* neither its author nor staff has been answered and the comment is there.
C4_Witness ==
    /\ resp.req.op = "delete_comment" /\ resp.req.method = "POST"
    /\ resp.req.viewer \in Users /\ ~is_staff(resp.req.viewer)
    /\ resp.req.comment_id \in DOMAIN comments
    /\ comments[resp.req.comment_id].author # resp.req.viewer

\* The other half of C4, reached: staff deleted a comment with a POST and
\* its post is still there.
C4_StaffDeleted ==
    /\ resp.req.op = "delete_comment" /\ resp.req.method = "POST"
    /\ is_staff(resp.req.viewer) /\ resp.to = "post_detail"
    /\ resp.req.comment_id \notin DOMAIN comments
    /\ resp.req.comment_id < nextComment /\ posts # <<>>

\* C5: a POST to delete an existing post removes it iff the viewer is its
\* author or staff; for every other viewer the posts and the comments stay
\* as they are.
C5_DeletePostIffAuthorOrStaff ==
    [][(/\ Handles({"delete_post"}) /\ resp'.req.method = "POST"
        /\ resp'.req.post_id \in DOMAIN posts) =>
        LET v == resp'.req.viewer
            p == resp'.req.post_id
        IN IF posts[p].author = v \/ is_staff(v)
           THEN p \notin DOMAIN posts'
           ELSE posts' = posts /\ comments' = comments]_vars

\* C6: an edit-post or edit-comment request changes nothing unless the
\* viewer is the author of the entity it names; then it changes that entity
\* alone, only by a POST that is answered with the redirect of a valid
\* form, and never the entity's author or a comment's post.
C6_EditOnlyByAuthor ==
    [][Handles({"edit_post", "edit_comment"}) =>
        LET v == resp'.req.viewer
            p == resp'.req.post_id
            c == resp'.req.comment_id
            valid_post == resp'.req.method = "POST" /\ resp'.kind = "redirect"
        IN /\ nextPost' = nextPost /\ nextComment' = nextComment
           /\ DOMAIN posts' = DOMAIN posts /\ DOMAIN comments' = DOMAIN comments
           /\ \A q \in DOMAIN posts : posts'[q].author = posts[q].author
           /\ \A k \in DOMAIN comments :
                 /\ comments'[k].author = comments[k].author
                 /\ comments'[k].post = comments[k].post
           /\ resp'.req.op = "edit_post" =>
                 /\ comments' = comments
                 /\ \A q \in DOMAIN posts :
                       (q # p \/ posts[q].author # v \/ ~valid_post)
                          => posts'[q] = posts[q]
           /\ resp'.req.op = "edit_comment" =>
                 /\ posts' = posts
                 /\ \A k \in DOMAIN comments :
                       (k # c \/ comments[k].author # v \/ ~valid_post)
                          => comments'[k] = comments[k]]_vars

\* C6, reached: a superuser who did not write the post has POSTed an edit
\* of it and been answered.
C6_Witness ==
    /\ resp.req.op = "edit_post" /\ resp.req.method = "POST"
    /\ resp.req.post_id \in DOMAIN posts
    /\ is_superuser(resp.req.viewer)
    /\ posts[resp.req.post_id].author # resp.req.viewer
    /\ resp.kind = "redirect"

\* An author's edit that changed the post, reached.
C6_AuthorEdited ==
    /\ resp.req.op = "edit_post" /\ resp.kind = "redirect"
    /\ resp.req.post_id \in DOMAIN posts
    /\ posts[resp.req.post_id].author = resp.req.viewer
    /\ ~posts[resp.req.post_id].is_published
    /\ nextPost = 2

\* The request is one the ownership policy denies: a logged-in viewer asks
\* to edit an entity of another author, or to delete one of another author
\* without being staff.
OwnershipDenied(rq) ==
    /\ rq.viewer \in Users
    /\ CASE rq.op = "edit_post" ->
               /\ rq.method = "POST" /\ rq.post_id \in DOMAIN posts
               /\ posts[rq.post_id].author # rq.viewer
          [] rq.op = "delete_post" ->
               /\ rq.method = "POST" /\ rq.post_id \in DOMAIN posts
               /\ posts[rq.post_id].author # rq.viewer /\ ~is_staff(rq.viewer)
          [] rq.op = "edit_comment" ->
               /\ rq.comment_id \in DOMAIN comments
               /\ comments[rq.comment_id].author # rq.viewer
          [] rq.op = "delete_comment" ->
               /\ rq.comment_id \in DOMAIN comments
               /\ comments[rq.comment_id].author # rq.viewer /\ ~is_staff(rq.viewer)
          [] OTHER -> FALSE

\* C7: every ownership denial on an existing entity is answered with a
\* redirect to the post's detail view or to the index, never with NotFound.
C7_DenialRedirectsToSafeView ==
    OwnershipDenied(resp.req) =>
        resp.kind = "redirect" /\ resp.to \in {"post_detail", "index"}

\* C7 for the two edit views alone.
EditDenialRedirectsToDetail ==
    (OwnershipDenied(resp.req) /\ resp.req.op \in {"edit_post", "edit_comment"}) =>
        resp.kind = "redirect" /\ resp.to = "post_detail"

\* C8: a feed asked for a page past its last page answers with its last
\* page, never with NotFound.
C8_PagePastLastIsLastPage ==
    LET rows == FeedRows(resp.req)
        last == LastPage(Cardinality(rows))
    IN (resp.req.op \in FeedOps /\ FeedExists(resp.req) /\ resp.req.page > last) =>
          /\ resp.kind = "render"
          /\ \E s \in order_by_pub_date_desc(rows) :
                [i \in DOMAIN resp.entries |-> resp.entries[i].id]
                   = page_slice(s, last)

\* C8 for the category and profile feeds alone.
GetPagePastLastIsLastPage ==
    (resp.req.op \in {"category_posts", "profile"}) => C8_PagePastLastIsLastPage

\* C9: every entry of every feed page carries the number of comments that
\* reference its post.
C9_FeedCountsExact ==
    (resp.req.op \in FeedOps /\ resp.kind = "render") =>
        \A i \in DOMAIN resp.entries :
            resp.entries[i].comment_count =
                Cardinality({c \in DOMAIN comments :
                                comments[c].post = resp.entries[i].id})

\* C9 for the index and the profile feed alone.
AnnotatedFeedCountsExact ==
    (resp.req.op \in {"index", "profile"}) => C9_FeedCountsExact

\* C10: no response to a logged-in viewer contains a post that the viewer
\* did not write and that is not publicly visible; stated for the views
\* behind the login (the forms to edit and delete a post, and add_comment,
\* which also attaches the comment it is sent).
C10_NoDisclosureBehindLogin ==
    (resp.req.viewer \in Users
     /\ resp.req.op \in {"edit_post", "delete_post", "add_comment"}) =>
        \A p \in resp.shown \cap DOMAIN posts : MayView(resp.req.viewer, p)
====
